---- MODULE Spec2Model ----
(***************************************************************************)
(* Model of the caching HackerNews API client:                             *)
(*   src/src/utils/cache.ts  SimpleCache  (bounded, expiring, Map-backed)  *)
(*   src/src/api/client.ts   HackerNewsClient (three caches, timeout-     *)
(*                           bounded fetches, typed errors)                *)
(* Time is Date.now() in milliseconds.  A JavaScript Map is a sequence of  *)
(* entries in insertion order: Map.set of an existing key keeps the key's  *)
(* position, Map.delete removes it, keys().next() is the head.             *)
(***************************************************************************)
EXTENDS Integers, Sequences, FiniteSets, TLC

\* ---------------------------------------------------------------- bounds
MaxNow == 1001
MaxTtlSeconds == 1
MaxMaxSize == 2

\* ------------------------------------------------------- program constants
MsPerSecond == 1000

\* ------------------------------------------------------------ input sets
\* Cache keys; the empty string is a key the tests use.
Keys == {"", "k1", "k2"}
\* JavaScript / JSON values are tagged records.
Undefined == [json |-> "undefined"]
Null == [json |-> "null"]
Str(x) == [json |-> "string", s |-> x]
Values == {Str("v1"), Str("v2")}
NoEntry == [value |-> Undefined, at |-> -1]

\* The instants Date.now() takes: 0, every whole second and the millisecond
\* after it, so that "before", "exactly at" and "just after" a TTL all occur.
ClockValues == {t \in 0..MaxNow : t % MsPerSecond \in {0, 1} /\ t # 1}

VARIABLES
  now,         \* Date.now()
  ttlSeconds,  \* constructor argument
  maxSize,     \* constructor argument
  cache,       \* SimpleCache.cache : Map<string, CacheEntry>
  last,        \* the last cache call and what it returned
  written,     \* history: key -> value and time of the last set still in force
  insSeq,      \* history: keys in order of insertion
  useSeq,      \* history: keys in order of last use (get hit or set)
  timeout,     \* HackerNewsClient.timeout (ms)
  itemCache,   \* HackerNewsClient.itemCache
  userCache,   \* HackerNewsClient.userCache
  listCache,   \* HackerNewsClient.listCache
  calls,       \* caller -> the primitive client call it is running or ran last
  completed,   \* history: cache key -> value and time of the last successful
               \* fetch, while its TTL is running and it is not cleared or evicted
  cleared,     \* history: no primitive has stored a body since the last clearCache()
  quiet,       \* history: clearCache() has run and no fetching call has started since
  upstream,    \* what the Hacker News API serves: items, user, top stories
  job,         \* the composite client call being run or run last
  server       \* the server process: its environment, its config, where main is

cacheVars == <<cache, last, written, insSeq, useSeq>>
clientVars == <<timeout, itemCache, userCache, listCache, calls, completed, cleared, quiet>>
jobVars == <<upstream, job>>
vars == <<now, ttlSeconds, maxSize, cacheVars, clientVars, jobVars, server>>

\* ------------------------------------------------------------- Map helpers
KeysOf(c) == {c[i].key : i \in 1..Len(c)}

MapHas(c, k) == k \in KeysOf(c)

MapGet(c, k) == c[CHOOSE i \in 1..Len(c) : c[i].key = k]

MapSet(c, k, e) ==
  IF MapHas(c, k)
    THEN [i \in 1..Len(c) |-> IF c[i].key = k THEN e ELSE c[i]]
    ELSE Append(c, e)

MapDelete(c, k) == SelectSeq(c, LAMBDA e : e.key # k)

\* JavaScript truthiness of a string key: only "" is falsy.
Truthy(k) == k # ""

\* ------------------------------------------------------------ SimpleCache
TtlMs(ttl) == ttl * MsPerSecond

\* Expiry with the comparison moved to "at or after".
ExpiredAtTtl(t, e) == t >= e.expiresAt

Expired(t, e) == t > e.expiresAt

cleanup(c, t) == SelectSeq(c, LAMBDA e : ~Expired(t, e))

\* set, lines 22-25: purge the expired entries when at capacity.
AfterPurge(c, cap, t) == IF Len(c) >= cap THEN cleanup(c, t) ELSE c

\* set, lines 28-33: the keys removed by the oldest-entry eviction.
EvictedKeys(c, cap, t) ==
  LET c1 == AfterPurge(c, cap, t)
  IN IF Len(c1) >= cap /\ Len(c1) > 0 /\ Truthy(c1[1].key)
       THEN {c1[1].key}
       ELSE {}

\* set without the zero-configuration early return.
CacheSetNoGuard(c, ttl, cap, k, v, t) ==
  LET c1 == AfterPurge(c, cap, t)
      c2 == SelectSeq(c1, LAMBDA e : e.key \notin EvictedKeys(c, cap, t))
  IN MapSet(c2, k, [key |-> k, value |-> v, expiresAt |-> t + TtlMs(ttl)])

CacheSet(c, ttl, cap, k, v, t) ==
  IF cap = 0 \/ TtlMs(ttl) = 0
    THEN c
    ELSE LET c1 == AfterPurge(c, cap, t)
             c2 == SelectSeq(c1, LAMBDA e : e.key \notin EvictedKeys(c, cap, t))
         IN MapSet(c2, k, [key |-> k, value |-> v, expiresAt |-> t + TtlMs(ttl)])

\* A get that leaves an expired entry in the map.
CacheAfterGetKept(c, k, t) == c

\* get: the cache after the call (an expired entry is deleted) ...
CacheAfterGet(c, k, t) ==
  IF MapHas(c, k) /\ Expired(t, MapGet(c, k)) THEN MapDelete(c, k) ELSE c

\* ... and the value returned.
CacheGet(c, k, t) ==
  IF ~MapHas(c, k) THEN Undefined
  ELSE IF Expired(t, MapGet(c, k)) THEN Undefined
  ELSE MapGet(c, k).value

CacheHas(c, k, t) == CacheGet(c, k, t) # Undefined

\* A size that counts the expired entries too.
CacheSizeOfMap(c, t) == Len(c)

CacheSize(c, t) == Len(cleanup(c, t))

\* ------------------------------------------------------- history helpers
\* s with the keys not in keep dropped, then k appended if it is not there.
Touch(s, k, keep) ==
  LET s1 == SelectSeq(s, LAMBDA x : x \in keep)
  IN IF \E i \in 1..Len(s1) : s1[i] = k THEN s1 ELSE Append(s1, k)

\* s with k moved to the end.
MoveLast(s, k, keep) ==
  Append(SelectSeq(s, LAMBDA x : x \in keep /\ x # k), k)

Pos(s, k) == CHOOSE i \in 1..Len(s) : s[i] = k

\* ------------------------------------------------- HackerNewsClient data
Callers == {"c1", "c2"}
ItemIds == {1, 2}
UserIds == {"u1"}
Versions == {1, 2}
Timeouts == {1}
ClientMaxSizes == {1, 10}
HttpErrorStatuses == {404, 500}

\* The six public list fetchers and the endpoint each passes to getStoryList.
StoryEndpoint ==
  [getTopStories |-> "topstories", getNewStories |-> "newstories",
   getBestStories |-> "beststories", getAskStories |-> "askstories",
   getShowStories |-> "showstories", getJobStories |-> "jobstories"]

\* The list fetchers the model calls.
ListFetchers == {"getTopStories", "getNewStories"}

\* A cache key that is the same for every item.
ItemKeyOfOne(id) == "item:" \o ToString(1)

\* `item:${id}`
ItemKey(id) == "item:" \o ToString(id)
UserKey(id) == "user:" \o id
ListKey(endpoint) == "list:" \o endpoint

ItemKeys == {ItemKey(id) : id \in ItemIds}
UserKeys == {UserKey(id) : id \in UserIds}
ListKeys == {ListKey(StoryEndpoint[f]) : f \in ListFetchers}
ClientKeys == ItemKeys \cup UserKeys \cup ListKeys

\* What the upstream can answer with status 200 (null means "not found").
ItemBodies(id) == {Null} \cup {[json |-> "object", id |-> id, ver |-> v] : v \in Versions}
UserBodies(id) == {Null, [json |-> "object", id |-> id, ver |-> 1]}
ListBodies == {Null} \cup {[json |-> "array", ids |-> l] : l \in {<<>>, <<2, 1>>}}
MaxItemBodies == {[json |-> "number", n |-> 2]}
UpdatesBodies == {[json |-> "object", items |-> <<1>>, profiles |-> <<"u1">>]}

\* A truthiness test that only undefined fails.
JsTruthyButUndefined(v) == v.json # "undefined"

\* JavaScript truthiness of a decoded JSON value (objects and arrays are
\* truthy, the empty array included).
JsTruthy(v) == v.json \notin {"undefined", "null"}

\* A list cache of a hundredth of the configured size.
ListCapHundredth(m) == m \div 100

\* The list cache is a tenth of the configured size.
ListCap(m) == m \div 10

\* Errors: name, statusCode (0 = undefined) and the message, kept as its
\* distinguishing text and the number it embeds.
NoStatus == 0
ErrorName == "HackerNewsClientError"
NoError == [name |-> "none", statusCode |-> NoStatus, msg |-> [text |-> "", num |-> 0]]

HttpError(status) ==
  [name |-> ErrorName, statusCode |-> status, msg |-> [text |-> "HTTP", num |-> status]]

TimeoutError(ms) ==
  [name |-> ErrorName, statusCode |-> NoStatus,
   msg |-> [text |-> "Request timeout after", num |-> ms]]

NetworkError ==
  [name |-> "Error", statusCode |-> NoStatus, msg |-> [text |-> "Network error", num |-> 0]]

DecodeError ==
  [name |-> "Error", statusCode |-> NoStatus, msg |-> [text |-> "Invalid JSON", num |-> 0]]

\* A catch block that rethrows the cause as it is.
WrapErrorRethrow(e) == e

\* The catch block of every primitive: a new client error whose message
\* embeds the cause's message; no status code is passed on.
WrapError(e) == [name |-> ErrorName, statusCode |-> NoStatus, msg |-> e.msg]

IdleCall ==
  [pc |-> "idle", op |-> "none", key |-> "", startedAt |-> 0, timer |-> FALSE,
   status |-> 0, failure |-> "", ret |-> Undefined, err |-> NoError, reqs |-> 0,
   dropped |-> {}, changed |-> FALSE]

NoFetch == [value |-> Undefined, at |-> -1]

\* The fetch recorded in e happened less than the TTL before t.
Within(e, ttl, t) == e # NoFetch /\ t - e.at < TtlMs(ttl)

\* The entry stored for the fetch recorded in e has not expired at t.
Alive(e, ttl, t) == e # NoFetch /\ t - e.at <= TtlMs(ttl)

Forget(hist, ttl, t) == [k \in DOMAIN hist |-> IF Alive(hist[k], ttl, t) THEN hist[k] ELSE NoFetch]

\* An environment variable: unset, or set to a text (a sequence of
\* characters).
EnvUnset == [set |-> FALSE, text |-> <<>>]

EnvText(s) == [set |-> TRUE, text |-> s]

NoServer ==
  [pc |-> "off",
   env |-> [HACKERNEWS_API_TIMEOUT |-> EnvUnset, CACHE_TTL_SECONDS |-> EnvUnset,
            CACHE_MAX_SIZE |-> EnvUnset],
   config |-> [api |-> [timeout |-> 0], cache |-> [ttlSeconds |-> 0, maxSize |-> 0]]]

NoUpstream == [items |-> <<>>, user |-> Null, top |-> Null]

\* A composite call: where it is, the primitive calls it awaits (subs, made
\* for need), its local variables and, as history, whether an awaited call
\* has resolved before one made earlier (swapped).
IdleJob ==
  [pc |-> "idle", op |-> "none", arg |-> Undefined, phase |-> "", kind |-> "",
   need |-> <<>>, subs |-> <<>>, off |-> 0, acc |-> <<>>, stack |-> <<>>,
   user |-> Null, ret |-> Undefined, err |-> NoError, swapped |-> FALSE,
   issued |-> 0]

\* The variables a specification does not use keep these values.
ClientUnused ==
  /\ timeout = 0
  /\ itemCache = <<>> /\ userCache = <<>> /\ listCache = <<>>
  /\ calls = [c \in Callers |-> IdleCall]
  /\ completed = [k \in ClientKeys |-> NoFetch]
  /\ cleared = FALSE
  /\ quiet = FALSE

JobUnused ==
  /\ upstream = NoUpstream
  /\ job = IdleJob
  /\ server = NoServer

CacheUnused ==
  /\ cache = <<>>
  /\ last = [op |-> "new", key |-> "", ret |-> Undefined]
  /\ written = [k \in Keys |-> NoEntry]
  /\ insSeq = <<>>
  /\ useSeq = <<>>

\* ---------------------------------------------------- SimpleCache actions
InitCache ==
  /\ now = 0
  /\ ttlSeconds \in 0..MaxTtlSeconds
  /\ maxSize \in 0..MaxMaxSize
  /\ cache = <<>>
  /\ last = [op |-> "new", key |-> "", ret |-> Undefined]
  /\ written = [k \in Keys |-> NoEntry]
  /\ insSeq = <<>>
  /\ useSeq = <<>>
  /\ ClientUnused
  /\ JobUnused

Tick ==
  /\ \E t \in ClockValues : t > now /\ now' = t
  /\ completed' = Forget(completed, ttlSeconds, now')
  /\ UNCHANGED <<ttlSeconds, maxSize, jobVars, server, cacheVars, timeout, cleared, quiet, itemCache, userCache, listCache, calls>>

Set(k, v) ==
  /\ cache' = CacheSet(cache, ttlSeconds, maxSize, k, v, now)
  /\ last' = [op |-> "set", key |-> k, ret |-> Undefined]
  /\ written' = [j \in Keys |->
       IF j = k THEN [value |-> v, at |-> now]
       ELSE IF j \in EvictedKeys(cache, maxSize, now) THEN NoEntry
       ELSE written[j]]
  /\ insSeq' = SelectSeq(Touch(insSeq, k, KeysOf(cache)), LAMBDA x : x \in KeysOf(cache'))
  /\ useSeq' = SelectSeq(MoveLast(useSeq, k, KeysOf(cache)), LAMBDA x : x \in KeysOf(cache'))
  /\ UNCHANGED <<now, ttlSeconds, maxSize, jobVars, server, clientVars>>

Get(k) ==
  /\ cache' = CacheAfterGet(cache, k, now)
  /\ last' = [op |-> "get", key |-> k, ret |-> CacheGet(cache, k, now)]
  /\ insSeq' = SelectSeq(insSeq, LAMBDA x : x \in KeysOf(cache'))
  /\ useSeq' = IF CacheGet(cache, k, now) # Undefined
                 THEN MoveLast(useSeq, k, KeysOf(cache'))
                 ELSE SelectSeq(useSeq, LAMBDA x : x \in KeysOf(cache'))
  /\ UNCHANGED <<now, ttlSeconds, maxSize, jobVars, server, written, clientVars>>

Has(k) ==
  /\ cache' = CacheAfterGet(cache, k, now)
  /\ last' = [op |-> "has", key |-> k, ret |-> CacheHas(cache, k, now)]
  /\ insSeq' = SelectSeq(insSeq, LAMBDA x : x \in KeysOf(cache'))
  /\ useSeq' = IF CacheHas(cache, k, now)
                 THEN MoveLast(useSeq, k, KeysOf(cache'))
                 ELSE SelectSeq(useSeq, LAMBDA x : x \in KeysOf(cache'))
  /\ UNCHANGED <<now, ttlSeconds, maxSize, jobVars, server, written, clientVars>>

Delete(k) ==
  /\ cache' = MapDelete(cache, k)
  /\ last' = [op |-> "delete", key |-> k, ret |-> MapHas(cache, k)]
  /\ written' = [written EXCEPT ![k] = NoEntry]
  /\ insSeq' = SelectSeq(insSeq, LAMBDA x : x \in KeysOf(cache'))
  /\ useSeq' = SelectSeq(useSeq, LAMBDA x : x \in KeysOf(cache'))
  /\ UNCHANGED <<now, ttlSeconds, maxSize, jobVars, server, clientVars>>

Clear ==
  /\ cache' = <<>>
  /\ last' = [op |-> "clear", key |-> "", ret |-> Undefined]
  /\ written' = [k \in Keys |-> NoEntry]
  /\ insSeq' = <<>>
  /\ useSeq' = <<>>
  /\ UNCHANGED <<now, ttlSeconds, maxSize, jobVars, server, clientVars>>

Size ==
  /\ cache' = cleanup(cache, now)
  /\ last' = [op |-> "size", key |-> "", ret |-> CacheSize(cache, now)]
  /\ insSeq' = SelectSeq(insSeq, LAMBDA x : x \in KeysOf(cache'))
  /\ useSeq' = SelectSeq(useSeq, LAMBDA x : x \in KeysOf(cache'))
  /\ UNCHANGED <<now, ttlSeconds, maxSize, jobVars, server, written, clientVars>>

NextCache ==
  \/ Tick
  \/ \E k \in Keys, v \in Values : Set(k, v)
  \/ \E k \in Keys : Get(k)
  \/ \E k \in Keys : Has(k)
  \/ \E k \in Keys : Delete(k)
  \/ Clear
  \/ Size

SpecCache == InitCache /\ [][NextCache]_vars

\* ----------------------------------------------- HackerNewsClient actions
InitClient ==
  /\ now = 0
  /\ ttlSeconds \in 0..MaxTtlSeconds
  /\ maxSize \in ClientMaxSizes
  /\ timeout \in Timeouts
  /\ itemCache = <<>> /\ userCache = <<>> /\ listCache = <<>>
  /\ calls = [c \in Callers |-> IdleCall]
  /\ completed = [k \in ClientKeys |-> NoFetch]
  /\ cleared = FALSE
  /\ quiet = FALSE
  /\ CacheUnused
  /\ JobUnused

\* A caller runs one call at a time.
Free(c) == calls[c].pc \notin {"fetching", "reading"}

\* History of what a call did to a cache: the keys of expired entries it
\* deleted, and whether it changed the cache in any other way.
Dropped(c1, c2, t) == {k \in KeysOf(c1) \ KeysOf(c2) : Expired(t, MapGet(c1, k))}

Changed(c1, c2, t) ==
  \/ \E k \in KeysOf(c2) : ~MapHas(c1, k) \/ MapGet(c1, k) # MapGet(c2, k)
  \/ \E k \in KeysOf(c1) \ KeysOf(c2) : ~Expired(t, MapGet(c1, k))

\* A primitive awaiting fetch(): fetchWithTimeout has armed the abort timer.
Fetching(op, key, t) ==
  [IdleCall EXCEPT !.pc = "fetching", !.op = op, !.key = key,
                   !.startedAt = t, !.timer = TRUE, !.reqs = 1]

\* The head of getItem / getUser / getStoryList: a truthy cached value is
\* returned at once, otherwise the request is issued.
Lookup(op, key, ch, t) ==
  LET cached == CacheGet(ch, key, t)
      ch2 == CacheAfterGet(ch, key, t)
      base == IF JsTruthy(cached)
                THEN [IdleCall EXCEPT !.pc = "returned", !.op = op, !.key = key,
                                      !.ret = cached]
                ELSE Fetching(op, key, t)
  IN [base EXCEPT !.dropped = Dropped(ch, ch2, t), !.changed = Changed(ch, ch2, t)]

StartGetItem(c, id) ==
  /\ Free(c)
  /\ calls' = [calls EXCEPT ![c] = Lookup("getItem", ItemKey(id), itemCache, now)]
  /\ itemCache' = CacheAfterGet(itemCache, ItemKey(id), now)
  /\ quiet' = FALSE
  /\ UNCHANGED <<now, ttlSeconds, maxSize, jobVars, server, cacheVars, timeout, cleared, userCache, listCache, completed>>

StartGetUser(c, id) ==
  /\ Free(c)
  /\ calls' = [calls EXCEPT ![c] = Lookup("getUser", UserKey(id), userCache, now)]
  /\ userCache' = CacheAfterGet(userCache, UserKey(id), now)
  /\ quiet' = FALSE
  /\ UNCHANGED <<now, ttlSeconds, maxSize, jobVars, server, cacheVars, timeout, cleared, itemCache, listCache, completed>>

StartGetStoryList(c, f) ==
  /\ Free(c)
  /\ calls' = [calls EXCEPT ![c] =
       Lookup("getStoryList", ListKey(StoryEndpoint[f]), listCache, now)]
  /\ listCache' = CacheAfterGet(listCache, ListKey(StoryEndpoint[f]), now)
  /\ quiet' = FALSE
  /\ UNCHANGED <<now, ttlSeconds, maxSize, jobVars, server, cacheVars, timeout, cleared, itemCache, userCache, completed>>

StartGetMaxItemId(c) ==
  /\ Free(c)
  /\ calls' = [calls EXCEPT ![c] = Fetching("getMaxItemId", "", now)]
  /\ quiet' = FALSE
  /\ UNCHANGED <<now, ttlSeconds, maxSize, jobVars, server, cacheVars, timeout, cleared, itemCache, userCache, listCache, completed>>

StartGetUpdates(c) ==
  /\ Free(c)
  /\ calls' = [calls EXCEPT ![c] = Fetching("getUpdates", "", now)]
  /\ quiet' = FALSE
  /\ UNCHANGED <<now, ttlSeconds, maxSize, jobVars, server, cacheVars, timeout, cleared, itemCache, userCache, listCache, completed>>

\* A failure answered by issuing the request again.
RaiseOrRetry(call, kind, e, status) ==
  [call EXCEPT !.pc = "fetching", !.timer = TRUE, !.status = status, !.failure = kind,
               !.reqs = @ + 1]

\* A call that ends by throwing e out of the primitive's try block; kind
\* records which failure it was.
Raise(call, kind, e, status) ==
  [call EXCEPT !.pc = "raised", !.timer = FALSE, !.startedAt = 0,
               !.status = status, !.failure = kind, !.err = WrapError(e)]

\* fetch() resolved with a 2xx response: the timer is cleared and the
\* primitive goes on to await response.json().
FetchOk(c) ==
  /\ calls[c].pc = "fetching"
  /\ calls' = [calls EXCEPT ![c] =
       [@ EXCEPT !.pc = "reading", !.timer = FALSE, !.status = 200]]
  /\ UNCHANGED <<now, ttlSeconds, maxSize, jobVars, server, cacheVars, timeout, cleared, quiet, itemCache, userCache, listCache, completed>>

\* fetch() resolved with a non-2xx response.
FetchHttpError(c, status) ==
  /\ calls[c].pc = "fetching"
  /\ calls' = [calls EXCEPT ![c] = Raise(@, "http", HttpError(status), status)]
  /\ UNCHANGED <<now, ttlSeconds, maxSize, jobVars, server, cacheVars, timeout, cleared, quiet, itemCache, userCache, listCache, completed>>

\* fetch() rejected with a transport error.
FetchNetworkError(c) ==
  /\ calls[c].pc = "fetching"
  /\ calls' = [calls EXCEPT ![c] = Raise(@, "network", NetworkError, 0)]
  /\ UNCHANGED <<now, ttlSeconds, maxSize, jobVars, server, cacheVars, timeout, cleared, quiet, itemCache, userCache, listCache, completed>>

\* The abort timer fired: fetch() rejects with an AbortError.
TimeoutFire(c) ==
  /\ calls[c].pc = "fetching"
  /\ calls[c].timer
  /\ now >= calls[c].startedAt + timeout
  /\ calls' = [calls EXCEPT ![c] = Raise(@, "timeout", TimeoutError(timeout), 0)]
  /\ UNCHANGED <<now, ttlSeconds, maxSize, jobVars, server, cacheVars, timeout, cleared, quiet, itemCache, userCache, listCache, completed>>

\* response.json() rejected.
JsonError(c) ==
  /\ calls[c].pc = "reading"
  /\ calls' = [calls EXCEPT ![c] = Raise(@, "decode", DecodeError, @.status)]
  /\ UNCHANGED <<now, ttlSeconds, maxSize, jobVars, server, cacheVars, timeout, cleared, quiet, itemCache, userCache, listCache, completed>>

\* A primitive that never stores what it fetched.
StoreFetchedNever(ch, ttl, cap, key, body, t) == ch

\* getItem / getUser store a truthy body; getStoryList stores any body.
StoreFetched(ch, ttl, cap, key, body, t) ==
  IF JsTruthy(body) THEN CacheSet(ch, ttl, cap, key, body, t) ELSE ch

StoreList(ch, ttl, cap, key, body, t) == CacheSet(ch, ttl, cap, key, body, t)

Returned(call, body, ch, ch2, t) ==
  [call EXCEPT !.pc = "returned", !.startedAt = 0, !.ret = body,
               !.dropped = @ \cup Dropped(ch, ch2, t),
               !.changed = @ \/ Changed(ch, ch2, t)]

Completed(key, body, ch, cap, t) ==
  Forget([k \in ClientKeys |->
            IF k = key THEN [value |-> body, at |-> t]
            ELSE IF k \in EvictedKeys(ch, cap, t) THEN NoFetch
            ELSE completed[k]], ttlSeconds, t)

\* response.json() resolved with the decoded body.
JsonOkItem(c, id, body) ==
  /\ calls[c].pc = "reading" /\ calls[c].op = "getItem"
  /\ calls[c].key = ItemKey(id)
  /\ itemCache' = StoreFetched(itemCache, ttlSeconds, maxSize, calls[c].key, body, now)
  /\ calls' = [calls EXCEPT ![c] = Returned(@, body, itemCache, itemCache', now)]
  /\ completed' = IF body # Null
                    THEN Completed(calls[c].key, body, itemCache, maxSize, now)
                    ELSE completed
  /\ cleared' = (cleared /\ ~JsTruthy(body))
  /\ UNCHANGED <<now, ttlSeconds, maxSize, jobVars, server, cacheVars, timeout, quiet, userCache, listCache>>

JsonOkUser(c, id, body) ==
  /\ calls[c].pc = "reading" /\ calls[c].op = "getUser"
  /\ calls[c].key = UserKey(id)
  /\ userCache' = StoreFetched(userCache, ttlSeconds, maxSize, calls[c].key, body, now)
  /\ calls' = [calls EXCEPT ![c] = Returned(@, body, userCache, userCache', now)]
  /\ completed' = IF body # Null
                    THEN Completed(calls[c].key, body, userCache, maxSize, now)
                    ELSE completed
  /\ cleared' = (cleared /\ ~JsTruthy(body))
  /\ UNCHANGED <<now, ttlSeconds, maxSize, jobVars, server, cacheVars, timeout, quiet, itemCache, listCache>>

JsonOkList(c, body) ==
  /\ calls[c].pc = "reading" /\ calls[c].op = "getStoryList"
  /\ listCache' = StoreList(listCache, ttlSeconds, ListCap(maxSize), calls[c].key, body, now)
  /\ calls' = [calls EXCEPT ![c] = Returned(@, body, listCache, listCache', now)]
  /\ completed' = Completed(calls[c].key, body, listCache, ListCap(maxSize), now)
  /\ cleared' = FALSE
  /\ UNCHANGED <<now, ttlSeconds, maxSize, jobVars, server, cacheVars, timeout, quiet, itemCache, userCache>>

JsonOkPlain(c, op, body) ==
  /\ calls[c].pc = "reading" /\ calls[c].op = op
  /\ calls' = [calls EXCEPT ![c] = [@ EXCEPT !.pc = "returned", !.startedAt = 0, !.ret = body]]
  /\ UNCHANGED <<now, ttlSeconds, maxSize, jobVars, server, cacheVars, timeout, cleared, quiet, itemCache, userCache, listCache, completed>>

\* A clearCache that aborts the calls awaiting a response.
ClearCacheCancelling ==
  /\ itemCache' = <<>>
  /\ userCache' = <<>>
  /\ listCache' = <<>>
  /\ completed' = [k \in ClientKeys |-> NoFetch]
  /\ cleared' = TRUE
  /\ quiet' = TRUE
  /\ calls' = [c \in Callers |-> IF Free(c) THEN calls[c] ELSE IdleCall]
  /\ UNCHANGED <<now, ttlSeconds, maxSize, jobVars, server, cacheVars, timeout>>

ClearCache ==
  /\ itemCache' = <<>>
  /\ userCache' = <<>>
  /\ listCache' = <<>>
  /\ completed' = [k \in ClientKeys |-> NoFetch]
  /\ cleared' = TRUE
  /\ quiet' = TRUE
  /\ UNCHANGED <<now, ttlSeconds, maxSize, jobVars, server, cacheVars, timeout, calls>>

\* getCacheStats: size() of each cache, which purges the expired entries
\* before it counts.
GetCacheStats(c) ==
  /\ Free(c)
  /\ calls' = [calls EXCEPT ![c] =
       [IdleCall EXCEPT !.pc = "returned", !.op = "getCacheStats",
          !.ret = [json |-> "object",
                   items |-> CacheSize(itemCache, now),
                   users |-> CacheSize(userCache, now),
                   lists |-> CacheSize(listCache, now)]]]
  /\ itemCache' = cleanup(itemCache, now)
  /\ userCache' = cleanup(userCache, now)
  /\ listCache' = cleanup(listCache, now)
  /\ UNCHANGED <<now, ttlSeconds, maxSize, jobVars, server, cacheVars, timeout, completed, cleared, quiet>>

\* The steps of the call run by caller c.
CallStep(c) ==
  \/ GetCacheStats(c)
  \/ \E id \in ItemIds : StartGetItem(c, id)
  \/ \E id \in UserIds : StartGetUser(c, id)
  \/ \E f \in ListFetchers : StartGetStoryList(c, f)
  \/ StartGetMaxItemId(c)
  \/ StartGetUpdates(c)
  \/ FetchOk(c)
  \/ \E status \in HttpErrorStatuses : FetchHttpError(c, status)
  \/ FetchNetworkError(c)
  \/ TimeoutFire(c)
  \/ JsonError(c)
  \/ \E id \in ItemIds : \E body \in ItemBodies(id) : JsonOkItem(c, id, body)
  \/ \E id \in UserIds : \E body \in UserBodies(id) : JsonOkUser(c, id, body)
  \/ \E body \in ListBodies : JsonOkList(c, body)
  \/ \E body \in MaxItemBodies : JsonOkPlain(c, "getMaxItemId", body)
  \/ \E body \in UpdatesBodies : JsonOkPlain(c, "getUpdates", body)

\* The client used by one caller that awaits each call before the next.
NextClient ==
  \/ Tick
  \/ ClearCache
  \/ CallStep("c1")

SpecClient == InitClient /\ [][NextClient]_vars

\* Time passes and an armed abort timer whose delay has passed fires; the
\* upstream is under no obligation to answer.
SpecClientFair ==
  /\ SpecClient
  /\ WF_vars(Tick)
  /\ \A c \in Callers : WF_vars(TimeoutFire(c))

\* The steps of a getItem call run by caller c.
GetItemStep(c) ==
  \/ \E id \in ItemIds : StartGetItem(c, id)
  \/ FetchOk(c)
  \/ \E status \in HttpErrorStatuses : FetchHttpError(c, status)
  \/ FetchNetworkError(c)
  \/ TimeoutFire(c)
  \/ JsonError(c)
  \/ \E id \in ItemIds : \E body \in ItemBodies(id) : JsonOkItem(c, id, body)

\* The client used by callers whose getItem calls overlap.
NextConcurrent ==
  \/ Tick
  \/ ClearCache
  \/ \E c \in Callers : GetItemStep(c)

SpecConcurrent == InitClient /\ [][NextConcurrent]_vars

\* The steps of a getUser call run by caller c.
GetUserStep(c) ==
  \/ \E id \in UserIds : StartGetUser(c, id)
  \/ FetchOk(c)
  \/ FetchNetworkError(c)
  \/ \E id \in UserIds : \E body \in UserBodies(id) : JsonOkUser(c, id, body)

\* The client used by callers whose getItem and getUser calls overlap.
NextShared ==
  \/ Tick
  \/ ClearCache
  \/ \E c \in Callers : GetItemStep(c)
  \/ \E c \in Callers : GetUserStep(c)

SpecShared == InitClient /\ [][NextShared]_vars

\* -------------------------------------------------------- server process
\* The constructor's cache options when the caller passes none.
DefaultTtlSeconds == 300
DefaultMaxSize == 1000

DigitValue ==
  [d \in {"0", "1", "2", "3", "4", "5", "6", "7", "8", "9"} |->
     CASE d = "0" -> 0 [] d = "1" -> 1 [] d = "2" -> 2 [] d = "3" -> 3 [] d = "4" -> 4
       [] d = "5" -> 5 [] d = "6" -> 6 [] d = "7" -> 7 [] d = "8" -> 8 [] d = "9" -> 9]

\* parseInt(s, 10) of a text of decimal digits.
RECURSIVE parseInt(_)
parseInt(s) ==
  IF Len(s) = 1 THEN DigitValue[s[1]]
  ELSE 10 * parseInt(SubSeq(s, 1, Len(s) - 1)) + DigitValue[s[Len(s)]]

\* process.env.NAME || fallback
OrDefault(e, fallback) == IF e.set /\ e.text # <<>> THEN e.text ELSE fallback

\* config.ts: the configuration read from the environment.
LoadConfig(env) ==
  [api |-> [timeout |->
              parseInt(OrDefault(env.HACKERNEWS_API_TIMEOUT, <<"1", "0", "0", "0", "0">>))],
   cache |-> [ttlSeconds |-> parseInt(OrDefault(env.CACHE_TTL_SECONDS, <<"3", "0", "0">>)),
              maxSize |-> parseInt(OrDefault(env.CACHE_MAX_SIZE, <<"1", "0", "0", "0">>))]]

\* The options main constructs the client with: base URL and timeout.
MainOptions(config) ==
  [timeout |-> config.api.timeout, has |-> {},
   cacheOptions |-> [ttlSeconds |-> 0, maxSize |-> 0]]

\* options.cacheOptions || { ttlSeconds: 300, maxSize: 1000 }
CacheOptionsOf(options) ==
  IF "cacheOptions" \in options.has THEN options.cacheOptions
  ELSE [ttlSeconds |-> DefaultTtlSeconds, maxSize |-> DefaultMaxSize]

\* The environments the server is started in.
TimeoutTexts == {EnvUnset, EnvText(<<"1">>)}
TtlTexts == {EnvUnset, EnvText(<<>>), EnvText(<<"1">>), EnvText(<<"6", "0", "0">>)}
MaxSizeTexts == {EnvUnset, EnvText(<<"1", "0">>), EnvText(<<"2", "0", "0", "0">>)}

InitServer ==
  /\ now = 0
  /\ ttlSeconds = 0 /\ maxSize = 0
  /\ ClientUnused
  /\ CacheUnused
  /\ upstream = NoUpstream
  /\ job = IdleJob
  /\ \E t \in TimeoutTexts, s \in TtlTexts, m \in MaxSizeTexts :
       server = [NoServer EXCEPT !.env = [HACKERNEWS_API_TIMEOUT |-> t,
                                          CACHE_TTL_SECONDS |-> s,
                                          CACHE_MAX_SIZE |-> m]]

\* The config module is evaluated when index.ts imports it.
ImportConfig ==
  /\ server.pc = "off"
  /\ server' = [server EXCEPT !.pc = "loaded", !.config = LoadConfig(server.env)]
  /\ UNCHANGED <<now, ttlSeconds, maxSize, cacheVars, clientVars, jobVars>>

\* main constructs the client the server runs with.
Main ==
  /\ server.pc = "loaded"
  /\ LET options == MainOptions(server.config)
     IN /\ timeout' = options.timeout
        /\ ttlSeconds' = CacheOptionsOf(options).ttlSeconds
        /\ maxSize' = CacheOptionsOf(options).maxSize
  /\ server' = [server EXCEPT !.pc = "running"]
  /\ UNCHANGED <<now, cacheVars, itemCache, userCache, listCache, calls, completed, cleared, quiet, jobVars>>

\* The server: config import, main, then the client serving getItem calls.
NextServer ==
  \/ ImportConfig
  \/ Main
  \/ server.pc = "running" /\ Tick
  \/ server.pc = "running" /\ GetItemStep("c1")

SpecServer == InitServer /\ [][NextServer]_vars

\* ------------------------------------------------ composite operations: data
\* Program constants of the composite operations.
MultiBatchSize == 10
TreeBatchSize == 5
RecentSubmissions == 10
TopOfStats == 5
DefaultLimit == 50
MaxLimit == 100

Min(a, b) == IF a < b THEN a ELSE b

\* A 0-based bound of slice brought into 0..len: a negative bound counts
\* from the end.
SliceBound(i, len) == IF i < 0 THEN (IF len + i < 0 THEN 0 ELSE len + i) ELSE Min(i, len)

\* array.slice(from, to)
Slice(s, from, to) ==
  LET f == SliceBound(from, Len(s))
      t == SliceBound(to, Len(s))
  IN IF t <= f THEN <<>> ELSE SubSeq(s, f + 1, t)

\* A batch that takes all the ids that are left.
BatchOfRest(ids, i, batchSize) == Slice(ids, i, Len(ids))

\* ids.slice(i, i + batchSize)
Batch(ids, i, batchSize) == Slice(ids, i, i + batchSize)

\* An item as the API serves it. The optional fields an item carries are
\* listed in has; a field that is not in has is undefined.
BaseItem(id, type) ==
  [json |-> "object", id |-> id, type |-> type, has |-> {}, kids |-> <<>>,
   title |-> <<>>, by |-> "", score |-> 0, time |-> 0, descendants |-> 0,
   deleted |-> FALSE]

Comment(id) == BaseItem(id, "comment")

CommentWithKids(id, kids) == [Comment(id) EXCEPT !.has = {"kids"}, !.kids = kids]

\* Strings that are searched are kept as sequences of characters.
Lower ==
  [ch \in {"A", "I", "M", "L", "a", "i", "m", "l", " "} |->
     CASE ch = "A" -> "a" [] ch = "I" -> "i" [] ch = "M" -> "m" [] ch = "L" -> "l"
       [] OTHER -> ch]

toLowerCase(s) == [i \in 1..Len(s) |-> Lower[s[i]]]

includes(s, sub) ==
  \E i \in 0..(Len(s) - Len(sub)) : SubSeq(s, i + 1, i + Len(sub)) = sub

AboutAI == <<"A", "I", " ", "a", "i">>
AboutMl == <<"M", "L">>
LowerAi == <<"m", "a", "i", "l">>

\* A story under which a non-comment node and a deleted comment sit; the
\* list endpoint answers null and the user does not exist.
MixedTree ==
  [items |-> <<
     [BaseItem(1, "story") EXCEPT !.has = {"kids", "title", "by", "score", "time"},
        !.kids = <<2, 3>>, !.title = AboutAI, !.by = "u1", !.score = 150, !.time = 1000],
     CommentWithKids(2, <<4>>),
     [BaseItem(3, "story") EXCEPT !.has = {"kids", "title"}, !.kids = <<5>>, !.title = AboutMl],
     [Comment(4) EXCEPT !.deleted = TRUE],
     Comment(5) >>,
   user |-> Null,
   top |-> Null]

\* A story with more kids than one batch, an absent kid, a comment linked
\* from two parents and a comment linked twice by the same parent.
WideTree ==
  [items |-> <<
     [BaseItem(1, "story") EXCEPT !.has = {"kids", "title", "descendants"},
        !.kids = <<2, 3, 4, 5, 6, 7>>, !.title = AboutMl, !.descendants = 7],
     CommentWithKids(2, <<8>>),
     Null,
     Comment(4),
     CommentWithKids(5, <<>>),
     CommentWithKids(6, <<4, 4>>),
     Comment(7),
     Comment(8) >>,
   user |-> [json |-> "object", id |-> "u1", submitted |-> <<1, 3, 2>>],
   top |-> [json |-> "array", ids |-> <<1, 2, 3>>]]

\* Top stories with missing fields: item 2 has no title, score or time and
\* item 3 has a lower-case title, a low score and a late time.
Stories ==
  [items |-> <<
     [BaseItem(1, "story") EXCEPT !.has = {"title", "by", "score", "time", "descendants"},
        !.title = AboutAI, !.by = "u1", !.score = 150, !.time = 1000],
     [BaseItem(2, "story") EXCEPT !.has = {"by"}, !.by = "u1"],
     [BaseItem(3, "story") EXCEPT !.has = {"title", "by", "score", "time"},
        !.title = LowerAi, !.by = "u2", !.score = 100, !.time = 3000],
     [Comment(4) EXCEPT !.has = {"by"}, !.by = "u1"] >>,
   user |-> [json |-> "object", id |-> "u1", submitted |-> <<2, 4, 1>>],
   top |-> [json |-> "array", ids |-> <<3, 1, 4, 2>>]]

Worlds == {MixedTree, WideTree, Stories}

\* The item the API serves for id; an unknown id is answered with null.
ItemAt(w, id) == IF id \in DOMAIN w.items THEN w.items[id] ELSE Null

\* Search parameters; has lists the ones that are given.
NoParams ==
  [has |-> {}, query |-> <<>>, author |-> "", minScore |-> 0, startTime |-> 0,
   endTime |-> 0, itemType |-> "", limit |-> 0]

SearchParams ==
  { NoParams,
    [NoParams EXCEPT !.has = {"query"}, !.query = <<"a", "I">>],
    [NoParams EXCEPT !.has = {"author"}, !.author = "u1"],
    [NoParams EXCEPT !.has = {"minScore"}, !.minScore = 120],
    [NoParams EXCEPT !.has = {"startTime", "endTime"}, !.startTime = 500, !.endTime = 2000],
    [NoParams EXCEPT !.has = {"limit"}, !.limit = 1],
    [NoParams EXCEPT !.has = {"limit", "author"}, !.limit = 1, !.author = "u1"],
    [NoParams EXCEPT !.has = {"limit"}, !.limit = 0],
    [NoParams EXCEPT !.has = {"limit"}, !.limit = 0 - 1] }

\* The arguments the composite operations are called with.
MetadataIds == {1, 2, 9}
TreeRoots == {1, 2, 4, 9}
MultiIds == {<<>>, <<1, 2>>, <<3, 9, 3>>, <<1, 9, 9, 9, 9, 9, 9, 9, 9, 3, 2>>}

\* --------------------------------------------- composite operations: code
\* item.descendants || 0
CommentCount(item) ==
  IF "descendants" \in item.has /\ item.descendants # 0 THEN item.descendants ELSE 0

\* getStoryWithMetadata without the guard on the item's type.
MetadataOfUnguarded(item) ==
  IF ~JsTruthy(item) THEN Null
  ELSE [json |-> "object", story |-> item, commentCount |-> CommentCount(item)]

\* What getStoryWithMetadata returns for the item getItem resolved with
\* (ageHours and domain are not modelled).
MetadataOf(item) ==
  IF ~JsTruthy(item) \/ item.type # "story" THEN Null
  ELSE [json |-> "object", story |-> item, commentCount |-> CommentCount(item)]

RECURSIVE SumScores(_)
SumScores(s) ==
  IF s = <<>> THEN 0
  ELSE (IF "score" \in Head(s).has THEN Head(s).score ELSE 0) + SumScores(Tail(s))

\* What getUserWithStats returns for the user and the items Promise.all
\* resolved with; averageScore is kept as the sum and the count it divides.
StatsOf(user, items) ==
  LET validItems == SelectSeq(items, LAMBDA item : item # Null)
      stories == SelectSeq(validItems, LAMBDA item : item.type = "story")
  IN [json |-> "object", user |-> user,
      averageScore |-> IF Len(stories) > 0
                         THEN [json |-> "number", sum |-> SumScores(stories), n |-> Len(stories)]
                         ELSE Undefined,
      topStories |-> Slice(stories, 0, TopOfStats),
      recentActivity |-> Slice(validItems, 0, TopOfStats)]

\* One story against the filters of filterStories.
PassesFilters(story, params) ==
  /\ ~ (/\ "query" \in params.has /\ params.query # <<>>
        /\ "title" \in story.has /\ story.title # <<>>
        /\ ~includes(toLowerCase(story.title), toLowerCase(params.query)))
  /\ ~ (/\ "author" \in params.has /\ params.author # ""
        /\ ("by" \notin story.has \/ story.by # params.author))
  /\ ~ (/\ "minScore" \in params.has /\ params.minScore # 0
        /\ (IF "score" \in story.has THEN story.score ELSE 0) < params.minScore)
  /\ ~ (/\ "startTime" \in params.has /\ params.startTime # 0
        /\ "time" \in story.has /\ story.time # 0
        /\ story.time < params.startTime)
  /\ ~ (/\ "endTime" \in params.has /\ params.endTime # 0
        /\ "time" \in story.has /\ story.time # 0
        /\ story.time > params.endTime)
  /\ ~ (/\ "itemType" \in params.has /\ params.itemType # ""
        /\ story.type # params.itemType)

filterStories(stories, params) ==
  SelectSeq(stories, LAMBDA story : PassesFilters(story, params))

\* A limit that ignores params.limit.
StoryLimitIgnored(params) == Min(DefaultLimit, MaxLimit)

\* Math.min(params.limit || 50, 100)
StoryLimit(params) ==
  Min(IF "limit" \in params.has /\ params.limit # 0 THEN params.limit ELSE DefaultLimit,
      MaxLimit)

\* Reading a property of null.
TypeError ==
  [name |-> "TypeError", statusCode |-> NoStatus,
   msg |-> [text |-> "Cannot read properties of null", num |-> 0]]

\* A composite that awaits the primitive calls kind(x) for x in need.
Need(j, phase, kind, need) ==
  [j EXCEPT !.pc = "need", !.phase = phase, !.kind = kind, !.need = need, !.subs = <<>>]

JobReturned(j, value) == [j EXCEPT !.pc = "returned", !.ret = value, !.need = <<>>, !.subs = <<>>]

\* A failure answered by returning what has been collected.
JobReturnedPartly(j, e) == [j EXCEPT !.pc = "returned", !.ret = j.acc]

JobRaised(j, e) == [j EXCEPT !.pc = "raised", !.err = e]

\* A test that every fetched item passes.
IsCommentOrOther(item) == JsTruthy(item)

\* comment && comment.type === "comment"
IsComment(item) == JsTruthy(item) /\ item.type = "comment"

\* One activation of loadCommentsRecursively: the kid ids, the offset of
\* the batch it is at, the fetched batch and the next batch element.
\* An activation that goes through its kid ids twice.
FrameTwice(ids) == [ids |-> ids \o ids, off |-> 0 - TreeBatchSize, batch |-> <<>>, at |-> 1]

Frame(ids) == [ids |-> ids, off |-> 0 - TreeBatchSize, batch |-> <<>>, at |-> 1]

\* loadCommentsRecursively run from the top of the stack until it awaits
\* the fetches of a batch or the outermost activation returns.
RECURSIVE Walk(_, _, _)

\* One step of the walk on the frame at the top of the stack.
WalkTop(j, stack, comments) ==
  IF stack = <<>> THEN JobReturned([j EXCEPT !.stack = <<>>, !.acc = comments], comments)
  ELSE
    LET n == Len(stack)
        f == stack[n]
    IN IF f.at <= Len(f.batch)
         THEN LET comment == f.batch[f.at]
                  rest == [stack EXCEPT ![n].at = f.at + 1]
              IN IF IsComment(comment)
                   THEN IF "kids" \in comment.has
                          THEN Walk(j, Append(rest, Frame(comment.kids)), Append(comments, comment))
                          ELSE Walk(j, rest, Append(comments, comment))
                   ELSE Walk(j, rest, comments)
         ELSE LET off == f.off + TreeBatchSize
              IN IF off < Len(f.ids)
                   THEN Need([j EXCEPT !.stack = [stack EXCEPT ![n].off = off,
                                                               ![n].batch = <<>>,
                                                               ![n].at = 1],
                                       !.acc = comments],
                             "walk", "item", Slice(f.ids, off, off + TreeBatchSize))
                   ELSE Walk(j, SubSeq(stack, 1, n - 1), comments)

\* The arguments are passed by value: each is evaluated once.
Walk(j, stack, comments) ==
  CHOOSE next \in {WalkTop(j, s, c) : s \in {stack}, c \in {comments}} : TRUE

\* The synchronous head of each composite, up to its first await.
Begin(op, arg) ==
  LET j == [IdleJob EXCEPT !.op = op, !.arg = arg]
  IN CASE op = "getStoryWithMetadata" -> Need(j, "item", "item", <<arg>>)
       [] op = "getUserWithStats" -> Need(j, "user", "user", <<arg>>)
       [] op = "getMultipleItems" ->
            IF 0 < Len(arg)
              THEN Need(j, "batch", "item", Batch(arg, 0, MultiBatchSize))
              ELSE JobReturned(j, <<>>)
       [] op = "searchStories" -> Need(j, "list", "list", <<"topstories">>)
       [] op = "getCommentTree" -> Need(j, "root", "item", <<arg>>)

\* The code that runs when the awaited calls have resolved with rets, up to
\* the next await, the return or the throw.
Continue(j, rets) ==
  CASE j.op = "getStoryWithMetadata" -> JobReturned(j, MetadataOf(rets[1]))
    [] j.op = "getUserWithStats" /\ j.phase = "user" ->
         IF ~JsTruthy(rets[1]) THEN JobReturned(j, Null)
         ELSE Need([j EXCEPT !.user = rets[1]], "items", "item",
                   Slice(rets[1].submitted, 0, RecentSubmissions))
    [] j.op = "getUserWithStats" /\ j.phase = "items" ->
         JobReturned(j, StatsOf(j.user, rets))
    [] j.op = "getMultipleItems" ->
         LET results == j.acc \o rets
             off == j.off + MultiBatchSize
         IN IF off < Len(j.arg)
              THEN Need([j EXCEPT !.acc = results, !.off = off], "batch", "item",
                        Batch(j.arg, off, MultiBatchSize))
              ELSE JobReturned([j EXCEPT !.acc = results], results)
    [] j.op = "searchStories" /\ j.phase = "list" ->
         IF ~JsTruthy(rets[1]) THEN JobRaised(j, TypeError)
         ELSE Need(j, "items", "item", Slice(rets[1].ids, 0, StoryLimit(j.arg) * 2))
    [] j.op = "searchStories" /\ j.phase = "items" ->
         LET validStories ==
               SelectSeq(rets, LAMBDA story : story # Null /\ story.type = "story")
         IN JobReturned(j, Slice(filterStories(validStories, j.arg), 0, StoryLimit(j.arg)))
    [] j.op = "getCommentTree" /\ j.phase = "root" ->
         IF ~JsTruthy(rets[1]) \/ "kids" \notin rets[1].has THEN JobReturned(j, <<>>)
         ELSE Walk(j, <<Frame(rets[1].kids)>>, <<>>)
    [] j.op = "getCommentTree" /\ j.phase = "walk" ->
         Walk(j, [j.stack EXCEPT ![Len(j.stack)].batch = rets], j.acc)

\* ------------------------------------------ composite operations: actions
PrimitiveOf(kind) ==
  CASE kind = "item" -> "getItem" [] kind = "user" -> "getUser" [] kind = "list" -> "getStoryList"

KeyOf(kind, x) ==
  CASE kind = "item" -> ItemKey(x) [] kind = "user" -> UserKey(x) [] kind = "list" -> ListKey(x)

CacheOf(kind) ==
  CASE kind = "item" -> itemCache [] kind = "user" -> userCache [] kind = "list" -> listCache

\* The body the API serves for the request of a primitive.
Serve(kind, x) ==
  CASE kind = "item" -> ItemAt(upstream, x) [] kind = "user" -> upstream.user
    [] kind = "list" -> upstream.top

\* The cache after get was called for each key in turn.
RECURSIVE AfterGets(_, _, _, _)
AfterGets(ch, kind, xs, t) ==
  IF xs = <<>> THEN ch
  ELSE AfterGets(CacheAfterGet(ch, KeyOf(kind, Head(xs)), t), kind, Tail(xs), t)

\* The primitive calls of j.need are made one after the other, each running
\* up to its own first await, and the composite awaits them all.
Awaiting(j) ==
  IF j.pc # "need" THEN j
  ELSE [j EXCEPT !.pc = "awaiting",
          !.issued = IF j.kind = "item" THEN @ + Len(j.need) ELSE @,
          !.subs = [i \in 1..Len(j.need) |->
                      Lookup(PrimitiveOf(j.kind), KeyOf(j.kind, j.need[i]),
                             AfterGets(CacheOf(j.kind), j.kind, SubSeq(j.need, 1, i - 1), now),
                             now)]]

Launch(j) ==
  /\ job' = Awaiting(j)
  /\ itemCache' = IF j.pc = "need" /\ j.kind = "item"
                    THEN AfterGets(itemCache, "item", j.need, now) ELSE itemCache
  /\ userCache' = IF j.pc = "need" /\ j.kind = "user"
                    THEN AfterGets(userCache, "user", j.need, now) ELSE userCache
  /\ listCache' = IF j.pc = "need" /\ j.kind = "list"
                    THEN AfterGets(listCache, "list", j.need, now) ELSE listCache

InitComposite ==
  /\ now = 0
  /\ ttlSeconds = MaxTtlSeconds
  /\ maxSize \in ClientMaxSizes
  /\ timeout \in Timeouts
  /\ itemCache = <<>> /\ userCache = <<>> /\ listCache = <<>>
  /\ calls = [c \in Callers |-> IdleCall]
  /\ completed = [k \in ClientKeys |-> NoFetch]
  /\ cleared = FALSE
  /\ quiet = FALSE
  /\ CacheUnused
  /\ upstream \in Worlds
  /\ job = IdleJob
  /\ server = NoServer

StartJob(op, arg) ==
  /\ job.pc = "idle"
  /\ \E j \in {Begin(op, arg)} : Launch(j)
  /\ UNCHANGED <<now, ttlSeconds, maxSize, cacheVars, timeout, calls, completed, cleared, quiet, upstream, server>>

\* The request of the i-th awaited call is answered 200 with a body: the
\* primitive stores it and resolves.
SubResolve(i) ==
  /\ job.pc = "awaiting"
  /\ i \in DOMAIN job.subs
  /\ job.subs[i].pc = "fetching"
  /\ LET body == Serve(job.kind, job.need[i])
         key == job.subs[i].key
         ch == CacheOf(job.kind)
         ch2 == IF job.kind = "list"
                  THEN StoreList(ch, ttlSeconds, ListCap(maxSize), key, body, now)
                  ELSE StoreFetched(ch, ttlSeconds, maxSize, key, body, now)
     IN /\ job' = [job EXCEPT !.subs[i] = [Returned(@, body, ch, ch2, now) EXCEPT !.timer = FALSE],
                            !.swapped = @ \/ \E k \in 1..(i - 1) : job.subs[k].pc = "fetching"]
        /\ itemCache' = IF job.kind = "item" THEN ch2 ELSE itemCache
        /\ userCache' = IF job.kind = "user" THEN ch2 ELSE userCache
        /\ listCache' = IF job.kind = "list" THEN ch2 ELSE listCache
  /\ UNCHANGED <<now, ttlSeconds, maxSize, cacheVars, timeout, calls, completed, cleared, quiet, upstream, server>>

\* How the request of an awaited call can fail.
SubFailures ==
  {[kind |-> "http", cause |-> HttpError(500), status |-> 500],
   [kind |-> "network", cause |-> NetworkError, status |-> 0]}

\* The request of the i-th awaited call fails: the primitive throws its
\* client error, Promise.all rejects with it and, no composite catching
\* it, the composite throws it.
SubReject(i, f) ==
  /\ job.pc = "awaiting"
  /\ i \in DOMAIN job.subs
  /\ job.subs[i].pc = "fetching"
  /\ LET sub == Raise(job.subs[i], f.kind, f.cause, f.status)
     IN job' = JobRaised([job EXCEPT !.subs[i] = sub], sub.err)
  /\ UNCHANGED <<now, ttlSeconds, maxSize, cacheVars, clientVars, upstream, server>>

\* A Promise.all that resolves with the values in reverse order.
PromiseAllReversed(subs) == [i \in DOMAIN subs |-> subs[Len(subs) + 1 - i].ret]

\* The value Promise.all resolves with: the values of the calls, in the
\* order the calls were made.
PromiseAll(subs) == [i \in DOMAIN subs |-> subs[i].ret]

\* Every awaited call has resolved: the composite goes on.
Settle ==
  /\ job.pc = "awaiting"
  /\ \A i \in DOMAIN job.subs : job.subs[i].pc = "returned"
  /\ \E j \in {Continue(job, PromiseAll(job.subs))} : Launch(j)
  /\ UNCHANGED <<now, ttlSeconds, maxSize, cacheVars, timeout, calls, completed, cleared, quiet, upstream, server>>

NextComposite ==
  \/ \E id \in MetadataIds : StartJob("getStoryWithMetadata", id)
  \/ \E id \in UserIds : StartJob("getUserWithStats", id)
  \/ \E ids \in MultiIds : StartJob("getMultipleItems", ids)
  \/ \E params \in SearchParams : StartJob("searchStories", params)
  \/ \E id \in TreeRoots : StartJob("getCommentTree", id)
  \/ \E i \in 1..MultiBatchSize : SubResolve(i)
  \/ \E i \in 1..MultiBatchSize : \E f \in SubFailures : SubReject(i, f)
  \/ Settle

SpecComposite == InitComposite /\ [][NextComposite]_vars

\* A client running one getCommentTree.
NextTree ==
  \/ \E id \in TreeRoots : StartJob("getCommentTree", id)
  \/ \E i \in 1..TreeBatchSize : SubResolve(i)
  \/ \E i \in 1..TreeBatchSize : \E f \in SubFailures : SubReject(i, f)
  \/ Settle

\* Every request is eventually answered or fails (at the latest by the
\* abort timer of fetchWithTimeout), and a settled Promise.all lets the
\* awaiting composite run on.
SpecTreeFair ==
  /\ InitComposite
  /\ [][NextTree]_vars
  /\ WF_vars(\E i \in 1..TreeBatchSize :
                SubResolve(i) \/ \E f \in SubFailures : SubReject(i, f))
  /\ WF_vars(Settle)

\* ------------------------------------------------ SimpleCache properties
\* The step just taken is the call get(k) / set(k, _).
GetStep(k) == last'.op = "get" /\ last'.key = k /\ now' = now

SetStep(k) == last'.op = "set" /\ last'.key = k /\ now' = now

\* A value set for k is in force (not deleted, cleared, overwritten or
\* evicted since) in a cache that stores values at all.
Stored(k) == written[k] # NoEntry /\ ttlSeconds > 0 /\ maxSize > 0

\* The cache holds exactly maxSize entries and none of them has expired.
FullUnexpired ==
  /\ ttlSeconds > 0 /\ maxSize > 0
  /\ Len(cache) = maxSize
  /\ \A i \in 1..Len(cache) : ~Expired(now, cache[i])

\* C1: after any set call the cache holds at most maxSize entries, for
\* arbitrary string keys, the empty string included.
C1_SizeBound == last.op = "set" => Len(cache) <= maxSize

\* C2: a value set for k at time s is returned by get(k) at every time s+t
\* with 0 <= t < ttl and is absent at every time s+t with t >= ttl.
C2_TtlExclusive ==
  [][\A k \in Keys : GetStep(k) /\ Stored(k) =>
       IF now - written[k].at < TtlMs(ttlSeconds)
         THEN last'.ret = written[k].value
         ELSE last'.ret = Undefined]_vars

\* C2 (amended): a value set for k at time s is returned by get(k) at every
\* time s+t with 0 <= t <= ttl and is absent at every time s+t with t > ttl.
C2_TtlInclusive ==
  [][\A k \in Keys : GetStep(k) /\ Stored(k) =>
       IF now - written[k].at <= TtlMs(ttlSeconds)
         THEN last'.ret = written[k].value
         ELSE last'.ret = Undefined]_vars

\* A get made exactly ttl after the set has returned the value.
C2_ReadAtTtl ==
  /\ last.op = "get" /\ Stored(last.key)
  /\ now - written[last.key].at = TtlMs(ttlSeconds)
  /\ last.ret = written[last.key].value

\* C3: a set of a new key into a cache holding maxSize unexpired entries
\* removes exactly one entry, the earliest-inserted one, and every other
\* entry stays readable (gets and has calls in between change nothing).
C3_FifoEviction ==
  [][\A k \in Keys : SetStep(k) /\ FullUnexpired /\ k \notin KeysOf(cache) =>
       /\ KeysOf(cache') = (KeysOf(cache) \ {insSeq[1]}) \cup {k}
       /\ \A j \in KeysOf(cache) \ {insSeq[1]} :
            CacheGet(cache', j, now) = CacheGet(cache, j, now)]_vars

\* C4: a set of a new key into a full cache evicts the least recently used
\* entry: no entry is evicted while an entry used less recently survives.
C4_LruEviction ==
  [][\A k \in Keys : SetStep(k) /\ FullUnexpired /\ k \notin KeysOf(cache) =>
       \A j \in KeysOf(cache) \ KeysOf(cache') :
         \A i \in KeysOf(cache) \cap KeysOf(cache') :
           Pos(useSeq, j) < Pos(useSeq, i)]_vars

\* C5: with maxSize = 0 the cache is empty in every state and size() is 0;
\* with ttlSeconds = 0 no get or has ever reports a value.
C5_ZeroConfig ==
  /\ maxSize = 0 =>
       /\ Len(cache) = 0
       /\ last.op = "size" => last.ret = 0
  /\ ttlSeconds = 0 =>
       /\ last.op = "get" => last.ret = Undefined
       /\ last.op = "has" => last.ret = FALSE

\* size() was called on a cache of maxSize 0 after a set.
C5_SizeAfterSetAtZero ==
  /\ maxSize = 0 /\ last.op = "size"
  /\ \E k \in Keys : written[k] # NoEntry

\* ------------------------------------------- HackerNewsClient properties
InFlight(c) == calls[c].pc \in {"fetching", "reading"}

\* The step just taken is caller c starting the primitive op on key.
StartStep(c, op, key) ==
  /\ ~InFlight(c)
  /\ calls'[c] # calls[c]
  /\ calls'[c].op = op /\ calls'[c].key = key

\* The call was answered from the cache: no request, the cached value.
ServedFromCache(call, value) ==
  call.pc = "returned" /\ call.reqs = 0 /\ call.ret = value

\* C6: with caching enabled, a getItem(id) that follows a successful fetch
\* of a non-null item id, before the TTL has elapsed and with no clearCache
\* or eviction in between, issues no request and returns the same value.
C6_GetItemCached ==
  [][\A c \in Callers, id \in ItemIds :
       ( /\ StartStep(c, "getItem", ItemKey(id))
         /\ ttlSeconds > 0 /\ maxSize > 0
         /\ Within(completed[ItemKey(id)], ttlSeconds, now) )
       => ServedFromCache(calls'[c], completed[ItemKey(id)].value)]_vars

\* A getItem was served from the cache after an earlier fetch of the id.
C6_SecondCallHit ==
  \E c \in Callers, id \in ItemIds :
    /\ calls[c].op = "getItem" /\ calls[c].key = ItemKey(id)
    /\ Within(completed[ItemKey(id)], ttlSeconds, now)
    /\ ServedFromCache(calls[c], completed[ItemKey(id)].value)

\* C7: on any client with ttlSeconds > 0 and maxSize > 0, a list fetcher
\* called again within the TTL of its last fetch issues no request and
\* returns the same ID sequence.
C7_ListCachedAnySize ==
  [][\A c \in Callers, f \in ListFetchers :
       ( /\ StartStep(c, "getStoryList", ListKey(StoryEndpoint[f]))
         /\ ttlSeconds > 0 /\ maxSize > 0
         /\ Within(completed[ListKey(StoryEndpoint[f])], ttlSeconds, now)
         /\ completed[ListKey(StoryEndpoint[f])].value.json = "array" )
       => ServedFromCache(calls'[c], completed[ListKey(StoryEndpoint[f])].value)]_vars

\* C7 (amended): the same on any client with ttlSeconds > 0 and
\* maxSize >= 10, whose list cache holds at least one entry.
C7_ListCachedFromTen ==
  [][\A c \in Callers, f \in ListFetchers :
       ( /\ StartStep(c, "getStoryList", ListKey(StoryEndpoint[f]))
         /\ ttlSeconds > 0 /\ maxSize >= 10
         /\ Within(completed[ListKey(StoryEndpoint[f])], ttlSeconds, now)
         /\ completed[ListKey(StoryEndpoint[f])].value.json = "array" )
       => ServedFromCache(calls'[c], completed[ListKey(StoryEndpoint[f])].value)]_vars

\* A list fetcher was served from the cache, upstream order kept.
C7_SecondListHit ==
  \E c \in Callers, f \in ListFetchers :
    /\ calls[c].op = "getStoryList" /\ calls[c].key = ListKey(StoryEndpoint[f])
    /\ maxSize >= 10
    /\ Within(completed[calls[c].key], ttlSeconds, now)
    /\ ServedFromCache(calls[c], [json |-> "array", ids |-> <<2, 1>>])

\* C8: a getItem / getUser that meets a transport error, a timeout, a
\* non-2xx status or a decode error raises a HackerNewsClientError, returns
\* no value and leaves all three caches exactly as they were before the call.
C8_FailureLeavesCaches ==
  \A c \in Callers :
    calls[c].failure # "" /\ calls[c].op \in {"getItem", "getUser"} =>
      /\ calls[c].pc = "raised"
      /\ calls[c].err.name = ErrorName
      /\ calls[c].ret = Undefined
      /\ ~calls[c].changed
      /\ calls[c].dropped = {}

\* C8 (amended): ... and leaves the caches as they were, except that the
\* call's initial lookup deletes the entry under its own key if that entry
\* had already expired.
C8_FailureDropsOnlyExpiredOwn ==
  \A c \in Callers :
    calls[c].failure # "" /\ calls[c].op \in {"getItem", "getUser"} =>
      /\ calls[c].pc = "raised"
      /\ calls[c].err.name = ErrorName
      /\ calls[c].ret = Undefined
      /\ ~calls[c].changed
      /\ calls[c].dropped \subseteq {calls[c].key}

\* A getItem failed after its lookup had deleted its own expired entry.
C8_FailedAfterExpiredLookup ==
  \E c \in Callers :
    /\ calls[c].pc = "raised" /\ calls[c].op = "getItem"
    /\ calls[c].failure = "network"
    /\ calls[c].dropped = {calls[c].key}

\* C9: when the upstream answers a primitive with a non-2xx status S, the
\* error raised to the caller is a client error whose statusCode is S.
C9_StatusPropagated ==
  \A c \in Callers :
    calls[c].pc = "raised" /\ calls[c].failure = "http" =>
      /\ calls[c].err.name = ErrorName
      /\ calls[c].err.statusCode = calls[c].status

\* C10: a primitive fetch that has not completed (response received and
\* body decoded) when its timeout has elapsed does not stay pending: it is
\* aborted and ends.
C10_TimeoutBound ==
  \A c \in Callers :
    (InFlight(c) /\ now >= calls[c].startedAt + timeout) ~> ~InFlight(c)

\* --------------------------------------------- composite-call properties
\* The composite call op has ended, by returning or by throwing.
Ended(op) == job.op = op /\ job.pc \in {"returned", "raised"}

\* The i-th primitive call the composite awaits has failed.
SubFailed(i) == i \in DOMAIN job.subs /\ job.subs[i].pc = "raised"

\* C11: getMultipleItems(ids) resolves, whatever fetches fail or find
\* nothing, with a list as long as ids whose i-th element is the item
\* fetched for ids[i], or null where that fetch failed or found nothing.
C11_PartialFailure ==
  Ended("getMultipleItems") =>
    /\ job.pc = "returned"
    /\ Len(job.ret) = Len(job.arg)
    /\ \A i \in 1..Len(job.arg) :
         job.ret[i] = IF SubFailed(i) THEN Null ELSE ItemAt(upstream, job.arg[i])

\* C12: when the user exists and fetches of some of the user's first 10
\* submitted items fail, getUserWithStats still resolves, its statistics
\* computed from the items whose fetch did not fail.
C12_StatsPartialFailure ==
  Ended("getUserWithStats") /\ job.phase = "items" =>
    /\ job.pc = "returned"
    /\ LET recent == Slice(job.user.submitted, 0, RecentSubmissions)
       IN job.ret = StatsOf(job.user,
            [i \in 1..Len(recent) |->
               IF SubFailed(i) THEN Null ELSE ItemAt(upstream, recent[i])])

\* -------------------------------------------- overlapping-call properties
\* C13: getItem calls for one id that overlap can each miss the cache and
\* each issue a request; a getItem is answered from the cache only if an
\* earlier call for that id had completed a successful fetch before it
\* started (otherwise it issues its own request).
C13_NoSingleFlight ==
  [][\A c \in Callers, id \in ItemIds :
       StartStep(c, "getItem", ItemKey(id)) =>
         IF calls'[c].pc = "returned"
           THEN /\ completed[ItemKey(id)] # NoFetch
                /\ completed[ItemKey(id)].at <= now
                /\ ServedFromCache(calls'[c], completed[ItemKey(id)].value)
           ELSE calls'[c].pc = "fetching" /\ calls'[c].reqs = 1]_vars

\* Two getItem calls for the same id have both missed and both wait for
\* their own request.
C13_BothMissed ==
  /\ calls["c1"].op = "getItem" /\ calls["c2"].op = "getItem"
  /\ calls["c1"].key = calls["c2"].key
  /\ calls["c1"].pc = "fetching" /\ calls["c2"].pc = "reading"
  /\ calls["c1"].reqs = 1 /\ calls["c2"].reqs = 1

\* The comments below the items ids in pre-order: each comment, then the
\* comments below its own kids, then the next of ids. Items that are absent
\* or not comments contribute nothing.
RECURSIVE PreOrder(_, _)
PreOrder(w, ids) ==
  IF ids = <<>> THEN <<>>
  ELSE LET item == ItemAt(w, Head(ids))
       IN (IF JsTruthy(item) /\ item.type = "comment"
             THEN <<item>> \o PreOrder(w, item.kids)
             ELSE <<>>) \o PreOrder(w, Tail(ids))

\* The root getCommentTree was called for has kids.
RootHasKids ==
  /\ job.op = "getCommentTree"
  /\ JsTruthy(ItemAt(upstream, job.arg))
  /\ "kids" \in ItemAt(upstream, job.arg).has

\* C14: for a root with kids, getCommentTree returns the comments below the
\* root (those reached from the root's kids through comments) flattened in
\* pre-order, once per link: kid batches in order, each comment followed at
\* once by all of its own descendants, whatever the order in which the
\* fetches of a batch complete.
C14_PreOrder ==
  RootHasKids /\ job.pc = "returned" =>
    job.ret = PreOrder(upstream, ItemAt(upstream, job.arg).kids)

\* A tree of two batches with nested comments and repeated links has been
\* returned although fetches of a batch completed out of order.
C14_WideTreeReturned ==
  /\ RootHasKids /\ job.pc = "returned"
  /\ job.swapped
  /\ Len(ItemAt(upstream, job.arg).kids) > TreeBatchSize
  /\ Len(job.ret) = 8

\* The ids of the items linked below ids, following the kids of every item
\* (All) or only the kids of comments.
RECURSIVE Below(_, _, _)
Below(w, ids, All) ==
  UNION { LET item == ItemAt(w, ids[i])
          IN IF ~JsTruthy(item) THEN {}
             ELSE {item.id} \cup
                  (IF All \/ item.type = "comment" THEN Below(w, item.kids, All) ELSE {})
        : i \in 1..Len(ids) }

IdsOf(items) == {items[i].id : i \in 1..Len(items)}

LiveComment(item) == JsTruthy(item) /\ item.type = "comment" /\ ~item.deleted

\* C15: a fetched kid that is not a comment, or is deleted or absent, is not
\* in the result of getCommentTree, while its kids are still traversed: the
\* result holds the undeleted comments linked anywhere below the root.
C15_KidsOfNonCommentsWalked ==
  RootHasKids /\ job.pc = "returned" =>
    /\ \A i \in 1..Len(job.ret) : LiveComment(job.ret[i])
    /\ IdsOf(job.ret) =
         {id \in Below(upstream, ItemAt(upstream, job.arg).kids, TRUE) :
            LiveComment(ItemAt(upstream, id))}

\* C15 (amended): a fetched kid that is absent or whose type is not
\* "comment" is not in the result and its kids are not traversed, so the
\* comments linked only below it are not returned; a deleted item whose
\* type is still "comment" is returned and traversed like any comment.
C15_NonCommentsPruned ==
  RootHasKids /\ job.pc = "returned" =>
    /\ \A i \in 1..Len(job.ret) : job.ret[i] # Null /\ job.ret[i].type = "comment"
    /\ IdsOf(job.ret) =
         {id \in Below(upstream, ItemAt(upstream, job.arg).kids, FALSE) :
            ItemAt(upstream, id).type = "comment"}

\* The tree with a story and a deleted comment below the root has been
\* walked: the deleted comment is returned, the comment below the story
\* is not.
C15_MixedTreeReturned ==
  /\ RootHasKids /\ job.pc = "returned"
  /\ \E i \in 1..Len(ItemAt(upstream, job.arg).kids) :
       LET kid == ItemAt(upstream, ItemAt(upstream, job.arg).kids[i])
       IN kid # Null /\ kid.type # "comment" /\ kid.kids # <<>>
  /\ \E i \in 1..Len(job.ret) : job.ret[i].deleted
  /\ IdsOf(job.ret) = {2, 4}

\* The parameter f is given (JavaScript truthy).
Given(params, f) ==
  /\ f \in params.has
  /\ CASE f = "query" -> params.query # <<>>
       [] f = "author" -> params.author # ""
       [] f = "minScore" -> params.minScore # 0
       [] f = "startTime" -> params.startTime # 0
       [] f = "endTime" -> params.endTime # 0

\* C16: every item searchStories(params) returns is a story that satisfies
\* every filter given: its title contains the query whatever the case, its
\* by is the author, its score is at least minScore and its time lies in
\* [startTime, endTime], stories with a missing title, score or time
\* included (a missing score counts as 0).
C16_FilterSoundness ==
  job.op = "searchStories" /\ job.pc = "returned" =>
    \A i \in 1..Len(job.ret) :
      LET story == job.ret[i]
          params == job.arg
      IN /\ story.type = "story"
         /\ Given(params, "query") =>
              /\ "title" \in story.has
              /\ includes(toLowerCase(story.title), toLowerCase(params.query))
         /\ Given(params, "author") => "by" \in story.has /\ story.by = params.author
         /\ Given(params, "minScore") =>
              (IF "score" \in story.has THEN story.score ELSE 0) >= params.minScore
         /\ Given(params, "startTime") =>
              "time" \in story.has /\ story.time >= params.startTime
         /\ Given(params, "endTime") =>
              "time" \in story.has /\ story.time <= params.endTime

\* C17: when the fetch of the item succeeds, getStoryWithMetadata does not
\* raise; it returns null if the item is absent or is not a story, and for
\* a story a result whose commentCount is the story's descendants, or 0 if
\* the story has none.
C17_TypeGuard ==
  Ended("getStoryWithMetadata") /\ ~SubFailed(1) =>
    /\ job.pc = "returned"
    /\ LET item == ItemAt(upstream, job.arg)
       IN IF item = Null \/ item.type # "story"
            THEN job.ret = Null
            ELSE /\ job.ret # Null
                 /\ job.ret.story = item
                 /\ job.ret.commentCount =
                      IF "descendants" \in item.has THEN item.descendants ELSE 0

\* getStoryWithMetadata has returned null for an item that is a comment.
C17_CommentGivesNull ==
  /\ job.op = "getStoryWithMetadata" /\ job.pc = "returned"
  /\ ItemAt(upstream, job.arg) # Null
  /\ ItemAt(upstream, job.arg).type = "comment"
  /\ job.ret = Null

\* ------------------------------------------- cache-management properties
\* The number of entries of cache ch that have not expired.
Unexpired(ch) == Cardinality({i \in 1..Len(ch) : now <= ch[i].expiresAt})

\* C18: getCacheStats returns, for the item, user and list cache, exactly
\* the number of that cache's entries that have not expired; called after
\* clearCache with nothing stored since it returns zeros, and a getItem
\* called after clearCache with nothing stored since issues a request.
C18_CacheStats ==
  [][\A c \in Callers :
       /\ StartStep(c, "getCacheStats", "") =>
            /\ calls'[c].pc = "returned"
            /\ calls'[c].ret.items = Unexpired(itemCache)
            /\ calls'[c].ret.users = Unexpired(userCache)
            /\ calls'[c].ret.lists = Unexpired(listCache)
            /\ cleared => calls'[c].ret = [json |-> "object", items |-> 0, users |-> 0, lists |-> 0]
       /\ \A id \in ItemIds :
            StartStep(c, "getItem", ItemKey(id)) /\ cleared =>
              calls'[c].pc = "fetching" /\ calls'[c].reqs = 1]_vars

\* getCacheStats has counted the entries of an item cache and a list cache
\* that hold one entry each, after time has passed.
C18_StatsOfPopulatedCaches ==
  \E c \in Callers :
    /\ calls[c].op = "getCacheStats"
    /\ calls[c].ret.items = 1 /\ calls[c].ret.lists = 1
    /\ Len(itemCache) = 1 /\ now = MsPerSecond + 1

\* C19: every public client method either returns a value or raises a
\* HackerNewsClientError, whatever the upstream does, an endpoint answering
\* 200 with a null body included; no other exception leaves a method.
C19_TypedErrors ==
  /\ job.pc = "raised" => job.err.name = ErrorName
  /\ \A c \in Callers : calls[c].pc = "raised" => calls[c].err.name = ErrorName

C21_ConfigInjected ==
  server.pc = "running" =>
    /\ ttlSeconds = server.config.cache.ttlSeconds
    /\ maxSize = server.config.cache.maxSize

\* ---------------------------------------- SimpleCache properties (cont.)
HasStep(k) == last'.op = "has" /\ last'.key = k /\ now' = now

\* The cache holds for k an entry whose expiresAt is earlier than now.
HoldsExpired(k) == MapHas(cache, k) /\ MapGet(cache, k).expiresAt < now

\* C22: get(k) and has(k) never report an entry whose expiresAt is earlier
\* than the current time, and a get(k) that finds such an entry removes it
\* from the cache and leaves every other entry as it was.
C22_ExpiredNeverReported ==
  [][\A k \in Keys :
       /\ GetStep(k) /\ HoldsExpired(k) =>
            /\ last'.ret = Undefined
            /\ cache' = SelectSeq(cache, LAMBDA e : e.key # k)
       /\ HasStep(k) /\ HoldsExpired(k) => last'.ret = FALSE]_vars

\* A get has found its entry expired and removed it; another entry is
\* still in the cache.
C22_ExpiredRemovedByGet ==
  /\ last.op = "get" /\ last.ret = Undefined
  /\ Stored(last.key)
  /\ now - written[last.key].at > TtlMs(ttlSeconds)
  /\ ~MapHas(cache, last.key)
  /\ Len(cache) = 1

\* The set just made is of a key that was not stored, into a cache at
\* capacity that stores values at all.
SetNewAtCapacity(k) ==
  /\ SetStep(k) /\ k \notin KeysOf(cache)
  /\ ttlSeconds > 0 /\ maxSize > 0
  /\ Len(cache) >= maxSize

\* The entries of the cache that the step just taken removed although they
\* had not expired.
EvictedUnexpired ==
  {i \in 1..Len(cache) : ~Expired(now, cache[i]) /\ ~MapHas(cache', cache[i].key)}

\* C23: when the set of a new key finds the cache at capacity and at least
\* one stored entry has expired, all the expired entries are purged and no
\* unexpired entry is evicted; an unexpired entry is evicted only if the
\* cache is still at capacity after the purge.
C23_CleanupBeforeEviction ==
  [][\A k \in Keys :
       SetNewAtCapacity(k) =>
         /\ (\E i \in 1..Len(cache) : Expired(now, cache[i])) =>
              /\ \A i \in 1..Len(cache) :
                   Expired(now, cache[i]) => ~MapHas(cache', cache[i].key)
              /\ EvictedUnexpired = {}
         /\ EvictedUnexpired # {} => Len(cleanup(cache, now)) >= maxSize]_vars

\* C27: when the cache holds maxSize unexpired entries and set(k, v) is
\* called for a key k that is present, the oldest-inserted entry is removed
\* before the write: if it is another key j, j is lost and the size is
\* maxSize - 1 afterwards; if it is k itself, k is re-inserted as the
\* newest entry.
C27_UpdateAtCapacityEvicts ==
  [][\A k \in Keys :
       SetStep(k) /\ FullUnexpired /\ k \in KeysOf(cache) =>
         LET j == cache[1].key
         IN /\ MapHas(cache', k)
            /\ MapGet(cache', k).value = written'[k].value
            /\ IF j # k
                 THEN /\ ~MapHas(cache', j)
                      /\ Len(cache') = maxSize - 1
                 ELSE /\ cache'[Len(cache')].key = k
                      /\ Len(cache') = maxSize]_vars

\* ------------------------------------- composite-call properties (cont.)
\* The awaited primitive calls whose request is in flight.
InFlightSubs == {i \in DOMAIN job.subs : job.subs[i].pc = "fetching"}

\* C24: getMultipleItems fetches the ids in consecutive batches of 10: the
\* requests in flight are for ids of one batch, the batches before it have
\* completed, so at most 10 requests are in flight; the output is in input
\* order whatever the completion order inside a batch.
C24_BatchesOfTen ==
  job.op = "getMultipleItems" =>
    /\ Cardinality(InFlightSubs) <= MultiBatchSize
    /\ job.pc = "awaiting" =>
         /\ Len(job.acc) = job.off
         /\ job.off % MultiBatchSize = 0
         /\ job.need = Slice(job.arg, job.off, job.off + MultiBatchSize)
         /\ \A i \in 1..job.off : job.acc[i] = ItemAt(upstream, job.arg[i])
    /\ job.pc = "returned" =>
         job.ret = [i \in 1..Len(job.arg) |-> ItemAt(upstream, job.arg[i])]

\* Eleven ids have been fetched in two batches, calls of a batch having
\* completed out of order.
C24_TwoBatchesReturned ==
  /\ job.op = "getMultipleItems" /\ job.pc = "returned"
  /\ Len(job.arg) > MultiBatchSize
  /\ job.swapped
  /\ Len(job.ret) = Len(job.arg)

\* The limit of a search: params.limit, 50 when none is given.
LimitOf(params) == IF "limit" \in params.has THEN params.limit ELSE DefaultLimit

\* The first 2 * min(limit, 100) ids of the top-stories list.
Window(params) ==
  LET n == 2 * Min(LimitOf(params), MaxLimit)
      top == upstream.top.ids
  IN {top[i] : i \in {i \in 1..Len(top) : i <= n}}

\* The position of item id in the top-stories list.
Rank(id) == CHOOSE i \in 1..Len(upstream.top.ids) : upstream.top.ids[i] = id

EffectiveLimit(params) ==
  IF "limit" \in params.has /\ params.limit # 0 THEN params.limit ELSE DefaultLimit

\* The first n ids of the top-stories list.
TopPrefix(n) ==
  {upstream.top.ids[i] : i \in {i \in 1..Len(upstream.top.ids) : i <= n}}

C26_FailFast ==
  job.op \in {"searchStories", "getCommentTree"} =>
    \A i \in DOMAIN job.subs :
      SubFailed(i) =>
        /\ job.pc = "raised"
        /\ job.err = job.subs[i].err
        /\ job.ret = Undefined

\* A comment-tree walk that had collected comments has raised because the
\* fetch of a descendant failed.
C26_WalkRaised ==
  /\ job.op = "getCommentTree" /\ job.pc = "raised"
  /\ job.phase = "walk"
  /\ job.acc # <<>>
  /\ \E i \in DOMAIN job.subs : SubFailed(i)
  /\ job.ret = Undefined

\* C28: under any interleaving of two callers' getItem and getUser calls,
\* every entry of the item cache has the key item:{id} of the non-null body
\* it holds, that body is one the upstream returns for that id, and while the
\* entry has not expired it is the body the last successful fetch of that key
\* returned; likewise for user:{id} in the user cache; a step of a getItem
\* call leaves the user and list caches unchanged and a step of a getUser call
\* leaves the item and list caches unchanged.
C28_ProvenanceAndIsolation ==
  [][ /\ \A i \in 1..Len(itemCache') :
           LET e == itemCache'[i] IN
             /\ e.value # Null /\ e.value # Undefined
             /\ e.value.id \in ItemIds
             /\ e.value \in ItemBodies(e.value.id)
             /\ e.key = "item:" \o ToString(e.value.id)
             /\ now' <= e.expiresAt => completed'[e.key].value = e.value
      /\ \A i \in 1..Len(userCache') :
           LET e == userCache'[i] IN
             /\ e.value # Null /\ e.value # Undefined
             /\ e.value.id \in UserIds
             /\ e.value \in UserBodies(e.value.id)
             /\ e.key = "user:" \o e.value.id
             /\ now' <= e.expiresAt => completed'[e.key].value = e.value
      /\ \A c \in Callers :
           calls'[c] # calls[c] =>
             /\ calls'[c].op = "getItem" => UNCHANGED <<userCache, listCache>>
             /\ calls'[c].op = "getUser" => UNCHANGED <<itemCache, listCache>>
    ]_vars

\* While one caller's getItem awaits its response, the other caller has
\* fetched and stored the same item and then a user.
C28_OverlappingCallsFilledCaches ==
  /\ calls["c1"].op = "getItem" /\ calls["c1"].pc = "reading"
  /\ MapHas(itemCache, calls["c1"].key)
  /\ calls["c2"].op = "getUser" /\ calls["c2"].pc = "returned"
  /\ calls["c2"].changed
  /\ MapHas(userCache, calls["c2"].key)

\* The entry a completed call's body was stored under.
StoredIn(ch, call) == MapHas(ch, call.key) /\ MapGet(ch, call.key).value = call.ret

\* C29: clearCache leaves the calls that are awaiting their response as they
\* are; on a client whose caches hold entries (ttlSeconds > 0, and a list
\* cache of at least one entry) such a call, completing with a truthy body
\* after the clear and before any other fetching call has started, stores
\* that body in its cache; and a getCacheStats called then reports the
\* entries stored so, which have not expired.
C29_ClearKeepsInFlight ==
  [][ /\ (~quiet /\ quiet') => calls' = calls
      /\ \A c \in Callers :
           ( /\ quiet /\ calls[c].pc = "reading" /\ calls'[c].pc = "returned"
             /\ JsTruthy(calls'[c].ret)
             /\ ttlSeconds > 0 )
           => /\ calls[c].op = "getItem" => StoredIn(itemCache', calls'[c])
              /\ calls[c].op = "getUser" => StoredIn(userCache', calls'[c])
              /\ (calls[c].op = "getStoryList" /\ maxSize \div 10 > 0)
                   => StoredIn(listCache', calls'[c])
              /\ calls[c].op \in {"getItem", "getUser", "getStoryList"} => ~cleared'
      /\ \A c \in Callers :
           ( /\ quiet /\ calls'[c] # calls[c] /\ calls'[c].op = "getCacheStats" )
           => /\ quiet'
              /\ calls'[c].ret.items = Unexpired(itemCache)
              /\ calls'[c].ret.users = Unexpired(userCache)
              /\ calls'[c].ret.lists = Unexpired(listCache)
    ]_vars

\* getCacheStats has reported an entry although no fetching call has started
\* since the last clearCache.
C29_StatsNonZeroAfterClear ==
  /\ quiet /\ ~cleared
  /\ calls["c1"].op = "getCacheStats" /\ calls["c1"].pc = "returned"
  /\ calls["c1"].ret.items + calls["c1"].ret.users + calls["c1"].ret.lists > 0

\* The number of kid links of the items of a sequence.
RECURSIVE SumKids(_)
SumKids(items) ==
  IF items = <<>> THEN 0
  ELSE (IF "kids" \in Head(items).has THEN Len(Head(items).kids) ELSE 0)
       + SumKids(Tail(items))

\* The kid links the walk has visited: those of the root and of every
\* comment collected, a comment reached twice counting twice.
LinksVisited ==
  LET root == ItemAt(upstream, job.arg)
  IN (IF JsTruthy(root) /\ "kids" \in root.has THEN Len(root.kids) ELSE 0)
     + SumKids(job.acc)

\* C30: on upstream data whose kids links are acyclic, with every request
\* eventually answered or failing, a getCommentTree that is awaiting fetches
\* eventually returns or raises; beside the getItem of the root it has
\* issued at most one getItem per kid link visited, and exactly one when it
\* returns, a link to an item already visited being fetched again.
C30_WalkTerminates ==
  /\ [](job.op = "getCommentTree" =>
          /\ job.issued <= 1 + LinksVisited
          /\ job.pc = "returned" => job.issued = 1 + LinksVisited)
  /\ (job.op = "getCommentTree" /\ job.pc = "awaiting")
       ~> (job.op = "getCommentTree" /\ job.pc \in {"returned", "raised"})

\* The walk of WideTree has returned: it fetched the root, its six kids, the
\* kid of comment 2 and comment 4 once for each of the two links of comment
\* 6, and collected comment 4 three times.
C30_WideTreeWalked ==
  /\ job.op = "getCommentTree" /\ job.pc = "returned"
  /\ upstream = WideTree /\ job.arg = 1
  /\ job.issued = 10
  /\ Len(SelectSeq(job.ret, LAMBDA comment : comment.id = 4)) = 3

====
